---- MODULE Spec2Model ----
(***************************************************************************)
(* Model of tools/harbor_sync/webhook_receiver.py: the Harbor webhook      *)
(* receiver that keeps repos / tags / image_pulls / allowed_images in step *)
(* with registry push and delete events.                                   *)
(*                                                                         *)
(* Python values are tagged records: [k |-> "null"] is None (SQL NULL when *)
(* bound as a statement parameter), [k |-> "str", s |-> s] a str,          *)
(* [k |-> "list", items |-> seq] a list and [k |-> "obj", fields |-> f] a  *)
(* dict, f a function from its keys to values.  An operator that models a  *)
(* Python expression that can raise returns [exc |-> TRUE, ...] for the    *)
(* raise.                                                                  *)
(***************************************************************************)
EXTENDS Integers, Sequences, FiniteSets, TLC

VARIABLES
    payload,    \* SpecParse: the decoded body handed to the normalizers
    pushOut,    \* SpecParse: what parse_harbor_payload(payload) gave
    delOut,     \* SpecParse: what parse_harbor_delete(payload) gave
    db,         \* the store: repos, tags, image_pulls, allowed_images, sequences
    clock,      \* datetime.utcnow()
    tx,         \* per connection: the mark_image_* call running on it
    notNull,    \* the schema declares the key columns NOT NULL (not in src/)
    allowed0,   \* history: the allow-list the run started with
    applied,    \* history: the transitions committed so far, in commit order
    h,          \* webhook(): the request being handled and its response
    secret,     \* WEBHOOK_SECRET
    reqs,       \* requests received so far
    reqStart    \* history: the committed tables when the request arrived

parseVars == <<payload, pushOut, delOut>>
storeVars == <<db, clock, tx, notNull, allowed0, applied>>
handlerVars == <<h, secret, reqs, reqStart>>
vars == <<payload, pushOut, delOut, db, clock, tx, notNull, allowed0, applied,
          h, secret, reqs, reqStart>>

----------------------------------------------------------------------------
(* Bounds *)

\* Requests the handler receives in a run.
MaxRequests == 2

----------------------------------------------------------------------------
(* Python / JSON values *)

JNull == [k |-> "null"]
JStr(s) == [k |-> "str", s |-> s]
JList(s) == [k |-> "list", items |-> s]
JObj(f) == [k |-> "obj", fields |-> f]
JAbsent == [k |-> "absent"]      \* generator-only: the key is not in the dict
EmptyDict == JObj([x \in {} |-> JNull])

\* A dict literal: the keys of f whose value is not JAbsent.
Dict(f) == JObj([x \in {y \in DOMAIN f : f[y].k # "absent"} |-> f[x]])

\* bool(x)
Truthy(x) ==
    CASE x.k = "null" -> FALSE
      [] x.k = "str"  -> x.s # ""
      [] x.k = "list" -> Len(x.items) > 0
      [] x.k = "obj"  -> DOMAIN x.fields # {}
      [] OTHER        -> FALSE

\* key in d, d a dict
Has(d, key) == key \in DOMAIN d.fields

\* d.get(key), d a dict
Get(d, key) == IF key \in DOMAIN d.fields THEN d.fields[key] ELSE JNull

\* a or b
PyOr(a, b) == IF Truthy(a) THEN a ELSE b

Raised == [exc |-> TRUE, pairs |-> <<>>]
Returned(ps) == [exc |-> FALSE, pairs |-> ps]

----------------------------------------------------------------------------
(* Payload Normalizer *)

\* payload.get('repository', {}).get('name'): AttributeError when the
\* repository key holds anything but a dict (a string, null).
PayloadRepoName(p) ==
    LET rv == IF Has(p, "repository") THEN p.fields["repository"] ELSE EmptyDict
    IN  IF rv.k # "obj" THEN [exc |-> TRUE, val |-> JNull]
        ELSE [exc |-> FALSE, val |-> Get(rv, "name")]

\* [t.get('name') if isinstance(t, dict) else t for t in tags]
TagNames(tags) ==
    [i \in 1..Len(tags) |-> IF tags[i].k = "obj" THEN Get(tags[i], "name") ELSE tags[i]]

PairsOf(repo, tags) == [i \in 1..Len(tags) |-> <<repo, tags[i]>>]

\* payload.get('push_data') or payload.get('push') or {}
PushData(p) == PyOr(Get(p, "push_data"), PyOr(Get(p, "push"), EmptyDict))

\* Lines 143-157: the flat repository.name + push_data.tag shape, then the
\* artifact shape.  Iterating art['tags'] is modelled for a list and for
\* None (TypeError); the payloads drawn never hold a str or a dict there.
FlatThenArtifact(p) ==
    LET outer == PayloadRepoName(p)
        pd    == PushData(p)
        art   == Get(p, "artifact")
    IN  IF outer.exc THEN Raised
        ELSE IF pd.k # "obj" THEN Raised
        ELSE IF Truthy(outer.val) /\ Truthy(Get(pd, "tag"))
             THEN Returned(<<(<<outer.val, Get(pd, "tag")>>)>>)
        ELSE IF art.k = "obj"
             THEN LET repo == PyOr(Get(art, "repository"), outer.val)
                  IN  IF Has(art, "tags")
                      THEN IF Get(art, "tags").k = "list"
                           THEN Returned(PairsOf(repo, TagNames(Get(art, "tags").items)))
                           ELSE Raised
                      ELSE Returned(<<>>)
        ELSE Returned(<<>>)

\* Lines 126-157.
parse_harbor_payload(p) ==
    LET event_data == PyOr(Get(p, "event_data"), PyOr(Get(p, "artifact"), p))
        resource   == IF event_data.k = "obj" THEN Get(event_data, "resource") ELSE JNull
    IN  IF ~Truthy(resource) THEN FlatThenArtifact(p)
        ELSE IF resource.k # "obj" THEN Raised
        ELSE LET r1 == Get(resource, "repository")
                 r2 == Get(resource, "repo")
                 outer == PayloadRepoName(p)
                 repo == IF Truthy(r1) THEN r1 ELSE IF Truthy(r2) THEN r2 ELSE outer.val
                 tags == IF Has(resource, "tag") /\ Truthy(Get(resource, "tag"))
                         THEN <<Get(resource, "tag")>>
                         ELSE IF Has(resource, "tags") /\ Get(resource, "tags").k = "list"
                              THEN TagNames(Get(resource, "tags").items)
                              ELSE <<>>
             IN  IF ~Truthy(r1) /\ ~Truthy(r2) /\ outer.exc THEN Raised
                 ELSE IF Truthy(repo) /\ Len(tags) > 0 THEN Returned(PairsOf(repo, tags))
                 ELSE FlatThenArtifact(p)

\* Lines 160-180.  An artifact's truthy tags are iterated: a list here.
parse_harbor_delete(p) ==
    LET art   == Get(p, "artifact")
        outer == PayloadRepoName(p)
        pd    == PushData(p)
        flat  == IF outer.exc THEN Raised
                 ELSE IF ~Truthy(outer.val) THEN Returned(<<>>)
                 ELSE IF pd.k # "obj" THEN Raised
                 ELSE Returned(<<(<<outer.val, Get(pd, "tag")>>)>>)
    IN  IF art.k = "obj"
        THEN LET r1   == Get(art, "repository")
                 repo == IF Truthy(r1) THEN r1 ELSE outer.val
                 tags == PyOr(Get(art, "tags"), JList(<<>>))
             IN  IF ~Truthy(r1) /\ outer.exc THEN Raised
                 ELSE IF Truthy(tags)
                      THEN IF tags.k = "list"
                           THEN Returned(PairsOf(repo, TagNames(tags.items)))
                           ELSE Raised
                 ELSE IF Truthy(repo) THEN Returned(<<(<<repo, JNull>>)>>)
                 ELSE flat
        ELSE flat

----------------------------------------------------------------------------
(* Names used in the payloads and calls *)

App == JStr("app")
Lib == JStr("lib")
V1 == JStr("v1")
V2 == JStr("v2")
V3 == JStr("v3")

NotRun == [exc |-> FALSE, pairs |-> <<>>, ran |-> FALSE]
Ran(out) == [exc |-> out.exc, pairs |-> out.pairs, ran |-> TRUE]

----------------------------------------------------------------------------
(* The store.  Every row carries xid: 0 when committed, else the           *)
(* connection whose open transaction inserted it.  An image_pulls or       *)
(* allowed_images row also carries lock / new: the connection holding its  *)
(* row lock and the version that connection will commit.  A connection     *)
(* reads committed rows and its own writes (READ COMMITTED, the default    *)
(* of a psycopg2 connection).                                              *)

Conns == {1, 2}

\* column = %s: never true of NULL.
SqlEq(a, b) == a.k = "str" /\ b.k = "str" /\ a.s = b.s

Wrap(row, c) == [cur |-> row, new |-> row, xid |-> c, lock |-> 0]
Visible(row, c) == row.xid \in {0, c}
Seen(row, c) == IF row.lock = c THEN row.new ELSE row.cur
\* the row after connection c writes version v of it
Written(row, v, c) ==
    IF row.xid = c THEN [row EXCEPT !.cur = v, !.new = v]
    ELSE [row EXCEPT !.new = v, !.lock = c]

AllowedRow(name, tag) ==
    [name |-> name, tag |-> tag, tag_id |-> 0, raw_name |-> JNull, raw_tag |-> JNull,
     deleted_at |-> 0, harbor_deleted |-> FALSE, harbor_deleted_at |-> 0]

EmptyStore(allowed) ==
    [repos |-> {}, tags |-> {}, pulls |-> <<>>,
     allowed |-> [i \in 1..Len(allowed) |-> Wrap(allowed[i], 0)],
     repo_seq |-> 0, tag_seq |-> 0]

\* What a new connection would read: the committed rows, without sequences.
Tables(d) ==
    [repos   |-> {[id |-> r.id, full_name |-> r.full_name] : r \in {x \in d.repos : x.xid = 0}},
     tags    |-> {[id |-> r.id, repository_id |-> r.repository_id, tag |-> r.tag] :
                    r \in {x \in d.tags : x.xid = 0}},
     pulls   |-> [i \in 1..Len(SelectSeq(d.pulls, LAMBDA r : r.xid = 0)) |->
                    SelectSeq(d.pulls, LAMBDA r : r.xid = 0)[i].cur],
     allowed |-> [i \in 1..Len(d.allowed) |-> d.allowed[i].cur]]

\* `with conn:` leaving normally.
Commit(d, c) ==
    LET done(row) == [cur |-> Seen(row, c), new |-> Seen(row, c), xid |-> 0, lock |-> 0]
        fin(row)  == IF row.xid = c \/ row.lock = c THEN done(row) ELSE row
    IN  [d EXCEPT !.repos   = {[r EXCEPT !.xid = IF r.xid = c THEN 0 ELSE r.xid] : r \in d.repos},
                  !.tags    = {[r EXCEPT !.xid = IF r.xid = c THEN 0 ELSE r.xid] : r \in d.tags},
                  !.pulls   = [i \in 1..Len(d.pulls) |-> fin(d.pulls[i])],
                  !.allowed = [i \in 1..Len(d.allowed) |-> fin(d.allowed[i])]]

\* `with conn:` leaving on an exception.  Sequences are not rolled back.
Rollback(d, c) ==
    LET undo(row) == IF row.lock = c THEN [row EXCEPT !.new = row.cur, !.lock = 0] ELSE row
        kept      == SelectSeq(d.pulls, LAMBDA r : r.xid # c)
    IN  [d EXCEPT !.repos   = {r \in d.repos : r.xid # c},
                  !.tags    = {r \in d.tags : r.xid # c},
                  !.pulls   = [i \in 1..Len(kept) |-> undo(kept[i])],
                  !.allowed = [i \in 1..Len(d.allowed) |-> undo(d.allowed[i])]]

\* SELECT id FROM repos WHERE full_name=%s; fetchone() (0: no row)
SelectRepo(d, c, name) ==
    LET rows == {r \in d.repos : Visible(r, c) /\ SqlEq(r.full_name, name)}
    IN  IF rows = {} THEN 0 ELSE (CHOOSE r \in rows : \A q \in rows : r.id <= q.id).id

\* SELECT id FROM tags WHERE repository_id=%s AND tag=%s; fetchone()
SelectTag(d, c, repo_id, tag) ==
    LET rows == {r \in d.tags : Visible(r, c) /\ r.repository_id = repo_id /\ SqlEq(r.tag, tag)}
    IN  IF rows = {} THEN 0 ELSE (CHOOSE r \in rows : \A q \in rows : r.id <= q.id).id

\* An INSERT ... ON CONFLICT waits for an open transaction that inserted
\* the same key, to see whether it commits.
RepoKeyHeld(d, c, name) ==
    \E r \in d.repos : r.xid \notin {0, c} /\ SqlEq(r.full_name, name)

TagKeyHeld(d, c, repo_id, tag) ==
    \E r \in d.tags : r.xid \notin {0, c} /\ r.repository_id = repo_id /\ SqlEq(r.tag, tag)

\* An UPDATE waits for the row locks other transactions hold on its rows.
PullsOfTags(d, c, tag_ids) ==
    {i \in 1..Len(d.pulls) : Visible(d.pulls[i], c) /\ Seen(d.pulls[i], c).tag_id \in tag_ids}

AllowedOf(d, c, name, tag, by_tag) ==
    {i \in 1..Len(d.allowed) :
        /\ SqlEq(Seen(d.allowed[i], c).name, name)
        /\ by_tag => SqlEq(Seen(d.allowed[i], c).tag, tag)}

LockedByOther(rows, idx, c) == \E i \in idx : rows[i].lock \notin {0, c}

----------------------------------------------------------------------------
(* Identity Resolver and State Applier, one statement at a time.           *)
(* A call's record: pc is the statement it executes next; injected and     *)
(* before are history (a store error was injected; the committed tables    *)
(* when the call was made).  Each step gives the store and the record      *)
(* after the statement.                                                    *)

NoTables == [repos |-> {}, tags |-> {}, pulls |-> <<>>, allowed |-> <<>>]

IdleTx ==
    [pc |-> "idle", op |-> "none", repo |-> JNull, tag |-> JNull, now |-> 0,
     repo_id |-> 0, tag_id |-> 0, rowcount |-> 0, injected |-> FALSE, before |-> NoTables]

NewCall(op, repo, tag, now, before) ==
    [pc |-> "connect", op |-> op, repo |-> repo, tag |-> tag, now |-> now,
     repo_id |-> 0, tag_id |-> 0, rowcount |-> 0, injected |-> FALSE, before |-> before]

Goto(d, t, pc) == [db |-> d, tx |-> [t EXCEPT !.pc = pc]]

\* An exception inside `with conn:`: rollback, and the call raises.
Raise(d, t, c) == [db |-> Rollback(d, c), tx |-> [t EXCEPT !.pc = "failed"]]

\* get_conn(), then the first statement of the call
connect(d, t, c) ==
    Goto(d, t, IF t.op = "pull" THEN "sel_repo" ELSE "d_upd_allowed")

\* _get_or_create_repo, lines 28-31
get_or_create_repo_select(d, t, c) ==
    LET id == SelectRepo(d, c, t.repo)
    IN  IF id # 0 THEN [db |-> d, tx |-> [t EXCEPT !.repo_id = id, !.pc = "sel_tag"]]
        ELSE Goto(d, t, "ins_repo")

\* _get_or_create_repo, lines 32-38.  The sequence advances even when the
\* row is not inserted.
get_or_create_repo_insert(d, t, c) ==
    LET id == d.repo_seq + 1
        d1 == [d EXCEPT !.repo_seq = id]
    IN  IF t.repo.k = "null" /\ notNull THEN Raise(d1, t, c)
        ELSE IF SelectRepo(d, c, t.repo) # 0 THEN Goto(d1, t, "resel_repo")
        ELSE [db |-> [d1 EXCEPT !.repos = @ \cup {[id |-> id, full_name |-> t.repo, xid |-> c]}],
              tx |-> [t EXCEPT !.repo_id = id, !.pc = "sel_tag"]]

\* Variant: the row the INSERT did not return is not selected again.
get_or_create_repo_no_reselect(d, t, c) == Raise(d, t, c)

\* _get_or_create_repo, lines 39-41, and the caller's check of lines 67-68
get_or_create_repo_reselect(d, t, c) ==
    LET id == SelectRepo(d, c, t.repo)
    IN  IF id # 0 THEN [db |-> d, tx |-> [t EXCEPT !.repo_id = id, !.pc = "sel_tag"]]
        ELSE Raise(d, t, c)

\* _get_or_create_tag, lines 45-48
get_or_create_tag_select(d, t, c) ==
    LET id == SelectTag(d, c, t.repo_id, t.tag)
    IN  IF id # 0 THEN [db |-> d, tx |-> [t EXCEPT !.tag_id = id, !.pc = "upd_pulls"]]
        ELSE Goto(d, t, "ins_tag")

\* _get_or_create_tag, lines 49-55
get_or_create_tag_insert(d, t, c) ==
    LET id == d.tag_seq + 1
        d1 == [d EXCEPT !.tag_seq = id]
    IN  IF t.tag.k = "null" /\ notNull THEN Raise(d1, t, c)
        ELSE IF SelectTag(d, c, t.repo_id, t.tag) # 0 THEN Goto(d1, t, "resel_tag")
        ELSE [db |-> [d1 EXCEPT !.tags = @ \cup
                        {[id |-> id, repository_id |-> t.repo_id, tag |-> t.tag, xid |-> c]}],
              tx |-> [t EXCEPT !.tag_id = id, !.pc = "upd_pulls"]]

\* _get_or_create_tag, lines 56-58, and the caller's check of lines 70-71
get_or_create_tag_reselect(d, t, c) ==
    LET id == SelectTag(d, c, t.repo_id, t.tag)
    IN  IF id # 0 THEN [db |-> d, tx |-> [t EXCEPT !.tag_id = id, !.pc = "upd_pulls"]]
        ELSE Raise(d, t, c)

\* SET col = value, ...: the row with the columns of cols replaced.
SetCols(row, cols) ==
    [f \in DOMAIN row |-> IF f \in DOMAIN cols THEN cols[f] ELSE row[f]]

\* UPDATE image_pulls SET ... WHERE tag_id in tag_ids
UpdatePulls(d, c, tag_ids, cols) ==
    LET idx == PullsOfTags(d, c, tag_ids)
    IN  [d EXCEPT !.pulls = [i \in 1..Len(d.pulls) |->
            IF i \in idx THEN Written(d.pulls[i], SetCols(Seen(d.pulls[i], c), cols), c)
            ELSE d.pulls[i]]]

\* UPDATE allowed_images SET ... WHERE name=%s [AND tag=%s]
UpdateAllowed(d, c, name, tag, by_tag, cols) ==
    LET idx == AllowedOf(d, c, name, tag, by_tag)
    IN  [d EXCEPT !.allowed = [i \in 1..Len(d.allowed) |->
            IF i \in idx THEN Written(d.allowed[i], SetCols(Seen(d.allowed[i], c), cols), c)
            ELSE d.allowed[i]]]

\* Variant: the UPDATE of lines 73-76 left out, the INSERT always tried.
mark_image_pulled_update_skipped(d, t, c) ==
    [db |-> d, tx |-> [t EXCEPT !.rowcount = 0, !.pc = "ins_pulls"]]

\* Variant: the INSERT run whatever the UPDATE's rowcount was.
mark_image_pulled_update_then_insert(d, t, c) ==
    [db |-> UpdatePulls(d, c, {t.tag_id}, [is_pulled |-> TRUE, last_pulled_at |-> t.now]),
     tx |-> [t EXCEPT !.rowcount = Cardinality(PullsOfTags(d, c, {t.tag_id})), !.pc = "ins_pulls"]]

\* mark_image_pulled, lines 73-76
mark_image_pulled_update(d, t, c) ==
    LET n  == Cardinality(PullsOfTags(d, c, {t.tag_id}))
        d1 == UpdatePulls(d, c, {t.tag_id},
                [is_pulled |-> TRUE, last_pulled_at |-> t.now])
    IN  [db |-> d1,
         tx |-> [t EXCEPT !.rowcount = n, !.pc = IF n = 0 THEN "ins_pulls" ELSE "upd_allowed"]]

\* mark_image_pulled, lines 77-80
mark_image_pulled_insert(d, t, c) ==
    Goto([d EXCEPT !.pulls = Append(@,
            Wrap([tag_id |-> t.tag_id, is_pulled |-> TRUE, last_pulled_at |-> t.now], c))],
         t, "upd_allowed")

\* Variant: the allow-list UPDATE matching on the name alone.
mark_image_pulled_allowed_by_name(d, t, c) ==
    Goto(UpdateAllowed(d, c, t.repo, t.tag, FALSE,
            [tag_id |-> t.tag_id, raw_name |-> t.repo, raw_tag |-> t.tag]),
         t, "commit")

\* Variant: the allow-list UPDATE clearing the deletion markers too.
mark_image_pulled_allowed_undeleting(d, t, c) ==
    Goto(UpdateAllowed(d, c, t.repo, t.tag, TRUE,
            [tag_id |-> t.tag_id, raw_name |-> t.repo, raw_tag |-> t.tag,
             deleted_at |-> 0, harbor_deleted |-> FALSE, harbor_deleted_at |-> 0]),
         t, "commit")

\* mark_image_pulled, lines 82-85
mark_image_pulled_allowed(d, t, c) ==
    Goto(UpdateAllowed(d, c, t.repo, t.tag, TRUE,
            [tag_id |-> t.tag_id, raw_name |-> t.repo, raw_tag |-> t.tag]),
         t, "commit")

\* mark_image_deleted, lines 94-105
mark_image_deleted_allowed(d, t, c) ==
    Goto(UpdateAllowed(d, c, t.repo, t.tag, Truthy(t.tag),
            [deleted_at |-> t.now, harbor_deleted |-> TRUE, harbor_deleted_at |-> t.now]),
         t, "d_sel_repo")

\* Variant: an unknown repository raises.
mark_image_deleted_repo_raising(d, t, c) ==
    LET id == SelectRepo(d, c, t.repo)
    IN  IF id = 0 THEN Raise(d, t, c)
        ELSE [db |-> d,
              tx |-> [t EXCEPT !.repo_id = id,
                               !.pc = IF Truthy(t.tag) THEN "d_sel_tag" ELSE "d_upd_repo"]]

\* mark_image_deleted, lines 107-111 and 117
mark_image_deleted_repo(d, t, c) ==
    LET id == SelectRepo(d, c, t.repo)
    IN  IF id = 0 THEN Goto(d, t, "commit")
        ELSE [db |-> d,
              tx |-> [t EXCEPT !.repo_id = id,
                               !.pc = IF Truthy(t.tag) THEN "d_sel_tag" ELSE "d_upd_repo"]]

\* mark_image_deleted, lines 112-115
mark_image_deleted_tag(d, t, c) ==
    LET id == SelectTag(d, c, t.repo_id, t.tag)
    IN  IF id = 0 THEN Goto(d, t, "commit")
        ELSE [db |-> d, tx |-> [t EXCEPT !.tag_id = id, !.pc = "d_upd_tag"]]

\* Variant: the delete of one tag written with the repository-wide UPDATE.
mark_image_deleted_pulls_tag_by_repo(d, t, c) ==
    Goto(UpdatePulls(d, c, {r.id : r \in {x \in d.tags : Visible(x, c) /\ x.repository_id = t.repo_id}},
                     [is_pulled |-> FALSE]),
         t, "commit")

\* mark_image_deleted, line 116
mark_image_deleted_pulls_tag(d, t, c) ==
    Goto(UpdatePulls(d, c, {t.tag_id}, [is_pulled |-> FALSE]), t, "commit")

\* SELECT id FROM tags WHERE repository_id=%s, the subquery of line 119
TagsOfRepo(d, c, repo_id) ==
    {r.id : r \in {x \in d.tags : Visible(x, c) /\ x.repository_id = repo_id}}

\* Variant: the subquery of line 119 yielding one tag only.
mark_image_deleted_pulls_repo_one_tag(d, t, c) ==
    LET ids == TagsOfRepo(d, c, t.repo_id)
        one == {i \in ids : \A j \in ids : i <= j}
    IN  Goto(UpdatePulls(d, c, one, [is_pulled |-> FALSE]), t, "commit")

\* mark_image_deleted, lines 118-121
mark_image_deleted_pulls_repo(d, t, c) ==
    Goto(UpdatePulls(d, c, TagsOfRepo(d, c, t.repo_id), [is_pulled |-> FALSE]),
         t, "commit")

\* leaving `with conn:` (lines 86, 122)
commit(d, t, c) == Goto(Commit(d, c), t, "done")

StatementPcs ==
    {"sel_repo", "ins_repo", "resel_repo", "sel_tag", "ins_tag", "resel_tag",
     "upd_pulls", "ins_pulls", "upd_allowed",
     "d_upd_allowed", "d_sel_repo", "d_sel_tag", "d_upd_tag", "d_upd_repo"}

\* The statement at t.pc.
Step(d, t, c) ==
    CASE t.pc = "connect"       -> connect(d, t, c)
      [] t.pc = "sel_repo"      -> get_or_create_repo_select(d, t, c)
      [] t.pc = "ins_repo"      -> get_or_create_repo_insert(d, t, c)
      [] t.pc = "resel_repo"    -> get_or_create_repo_reselect(d, t, c)
      [] t.pc = "sel_tag"       -> get_or_create_tag_select(d, t, c)
      [] t.pc = "ins_tag"       -> get_or_create_tag_insert(d, t, c)
      [] t.pc = "resel_tag"     -> get_or_create_tag_reselect(d, t, c)
      [] t.pc = "upd_pulls"     -> mark_image_pulled_update(d, t, c)
      [] t.pc = "ins_pulls"     -> mark_image_pulled_insert(d, t, c)
      [] t.pc = "upd_allowed"   -> mark_image_pulled_allowed(d, t, c)
      [] t.pc = "d_upd_allowed" -> mark_image_deleted_allowed(d, t, c)
      [] t.pc = "d_sel_repo"    -> mark_image_deleted_repo(d, t, c)
      [] t.pc = "d_sel_tag"     -> mark_image_deleted_tag(d, t, c)
      [] t.pc = "d_upd_tag"     -> mark_image_deleted_pulls_tag(d, t, c)
      [] t.pc = "d_upd_repo"    -> mark_image_deleted_pulls_repo(d, t, c)
      [] t.pc = "commit"        -> commit(d, t, c)

\* The statement at t.pc has to wait for another connection's transaction.
Waits(d, t, c) ==
    CASE t.pc = "ins_repo"      -> RepoKeyHeld(d, c, t.repo)
      [] t.pc = "ins_tag"       -> TagKeyHeld(d, c, t.repo_id, t.tag)
      [] t.pc = "upd_pulls"     -> LockedByOther(d.pulls, PullsOfTags(d, c, {t.tag_id}), c)
      [] t.pc = "d_upd_tag"     -> LockedByOther(d.pulls, PullsOfTags(d, c, {t.tag_id}), c)
      [] t.pc = "d_upd_repo"    ->
            LockedByOther(d.pulls, PullsOfTags(d, c, TagsOfRepo(d, c, t.repo_id)), c)
      [] t.pc = "upd_allowed"   ->
            LockedByOther(d.allowed, AllowedOf(d, c, t.repo, t.tag, TRUE), c)
      [] t.pc = "d_upd_allowed" ->
            LockedByOther(d.allowed, AllowedOf(d, c, t.repo, t.tag, Truthy(t.tag)), c)
      [] OTHER                  -> FALSE

\* mark_image_pulled / mark_image_deleted run alone on connection c, start
\* to end: the store it leaves.
RECURSIVE RunAlone(_, _, _)
RunAlone(d, t, c) ==
    IF t.pc \in {"done", "failed"} THEN d
    ELSE CHOOSE x \in {RunAlone(r.db, r.tx, c) : r \in {Step(d, t, c)}} : TRUE

mark_image_pulled(d, repo, tag, now) ==
    RunAlone(d, NewCall("pull", repo, tag, now, NoTables), 1)

mark_image_deleted(d, repo, tag, now) ==
    RunAlone(d, NewCall("del", repo, tag, now, NoTables), 1)

----------------------------------------------------------------------------
(* The statements as actions of connection c *)

Running(t) == t.pc \in StatementPcs \cup {"connect", "commit"}

\* Variant: the connection in autocommit mode, every statement its own
\* transaction.
Statement_autocommit(c, pc) ==
    /\ tx[c].pc = pc
    /\ ~Waits(db, tx[c], c)
    /\ db' = Commit(Step(db, tx[c], c).db, c)
    /\ tx' = [tx EXCEPT ![c] = Step(db, tx[c], c).tx]
    /\ applied' = IF pc = "commit"
                  THEN Append(applied, [op |-> tx[c].op, repo |-> tx[c].repo, tag |-> tx[c].tag])
                  ELSE applied

\* The statement at pc of connection c executes.
Statement(c, pc) ==
    /\ tx[c].pc = pc
    /\ ~Waits(db, tx[c], c)
    /\ db' = Step(db, tx[c], c).db
    /\ tx' = [tx EXCEPT ![c] = Step(db, tx[c], c).tx]
    /\ applied' = IF pc = "commit"
                  THEN Append(applied, [op |-> tx[c].op, repo |-> tx[c].repo, tag |-> tx[c].tag])
                  ELSE applied

\* Variant: the failing transaction's writes are kept.
Failure_keeps_writes(c) ==
    /\ Running(tx[c])
    /\ db' = Commit(db, c)
    /\ tx' = [tx EXCEPT ![c] = [@ EXCEPT !.pc = "failed", !.injected = TRUE]]
    /\ applied' = applied

\* psycopg2 raises at get_conn(), at a statement or at the commit: the
\* transaction is rolled back and mark_image_* raises.
Failure(c) ==
    /\ Running(tx[c])
    /\ db' = Rollback(db, c)
    /\ tx' = [tx EXCEPT ![c] = [@ EXCEPT !.pc = "failed", !.injected = TRUE]]
    /\ applied' = applied

\* mark_image_pulled / mark_image_deleted is called: lines 62, 91.
Call(c, op, repo, tag) ==
    /\ ~Running(tx[c])
    /\ tx' = [tx EXCEPT ![c] = NewCall(op, repo, tag, clock, Tables(db))]
    /\ clock' = clock + 1

----------------------------------------------------------------------------
(* str.lower(), str.upper() and `in` on the strings of the event-type      *)
(* fields, computed on their spelling.                                     *)

UpperCase == <<"A", "B", "C", "D", "E", "F", "G", "H", "I", "J", "K", "L", "M",
               "N", "O", "P", "Q", "R", "S", "T", "U", "V", "W", "X", "Y", "Z">>
LowerCase == <<"a", "b", "c", "d", "e", "f", "g", "h", "i", "j", "k", "l", "m",
               "n", "o", "p", "q", "r", "s", "t", "u", "v", "w", "x", "y", "z">>

Spell(s) ==
    CASE s = ""                -> <<>>
      [] s = "PUSH_ARTIFACT"   -> <<"P", "U", "S", "H", "_", "A", "R", "T", "I", "F", "A", "C", "T">>
      [] s = "DELETE_ARTIFACT" -> <<"D", "E", "L", "E", "T", "E", "_", "A", "R", "T", "I", "F", "A", "C", "T">>
      [] s = "Deleted"         -> <<"D", "e", "l", "e", "t", "e", "d">>
      [] s = "DELETE"          -> <<"D", "E", "L", "E", "T", "E">>
      [] s = "delete"          -> <<"d", "e", "l", "e", "t", "e">>
      [] s = "artifact"        -> <<"a", "r", "t", "i", "f", "a", "c", "t">>
      [] s = "CREATE"          -> <<"C", "R", "E", "A", "T", "E">>

ToCase(ch, from, to) ==
    IF \E i \in 1..Len(from) : from[i] = ch
    THEN to[CHOOSE i \in 1..Len(from) : from[i] = ch]
    ELSE ch

Lower(w) == [i \in 1..Len(w) |-> ToCase(w[i], UpperCase, LowerCase)]
Upper(w) == [i \in 1..Len(w) |-> ToCase(w[i], LowerCase, UpperCase)]

\* sub in w
Contains(w, sub) ==
    \E i \in 0..(Len(w) - Len(sub)) : \A j \in 1..Len(sub) : w[i + j] = sub[j]

\* Variant: the operation field is not looked at (lines 199-200 left out).
classify_by_type_only(p) ==
    IF p.k # "obj" THEN [exc |-> TRUE, is_delete |-> FALSE]
    ELSE LET ty == PyOr(Get(p, "type"), PyOr(Get(p, "event_type"),
                        PyOr(Get(p, "event_type_lite"), JStr(""))))
         IN  IF ty.k # "str" THEN [exc |-> TRUE, is_delete |-> FALSE]
             ELSE [exc |-> FALSE, is_delete |-> Contains(Lower(Spell(ty.s)), Spell("delete"))]

\* Lines 195-200: [exc, is_delete].  .lower() / .upper() of a value that is
\* not a str, or .get of a body that is not a dict, raises.
classify(p) ==
    IF p.k # "obj" THEN [exc |-> TRUE, is_delete |-> FALSE]
    ELSE LET ty == PyOr(Get(p, "type"), PyOr(Get(p, "event_type"),
                        PyOr(Get(p, "event_type_lite"), JStr(""))))
             op == Get(p, "operation")
         IN  IF ty.k # "str" \/ (Truthy(op) /\ op.k # "str")
             THEN [exc |-> TRUE, is_delete |-> FALSE]
             ELSE LET evtype == Lower(Spell(ty.s))
                      byType == \/ Contains(evtype, Spell("delete"))
                                \/ (Contains(evtype, Spell("artifact")) /\ Contains(evtype, Spell("delete")))
                      byOp   == Truthy(op) /\ Upper(Spell(op.s)) = Spell("DELETE")
                  IN  [exc |-> FALSE, is_delete |-> byType \/ byOp]

----------------------------------------------------------------------------
(* Ingress Handler: webhook(), lines 183-227, one request at a time on     *)
(* connection 1.                                                           *)

Malformed == [k |-> "malformed"]     \* a body that is not JSON

IdleHandler ==
    [pc |-> "idle", token |-> JNull, body |-> Malformed, is_delete |-> FALSE,
     pairs |-> <<>>, i |-> 0, code |-> 0, status |-> "", count |-> 0,
     parsed |-> FALSE, normalized |-> FALSE, calls |-> 0]

Respond(hh, code, status, count) ==
    [hh EXCEPT !.pc = "responded", !.code = code, !.status = status, !.count = count]

\* A request arrives.
Receive(token, body) ==
    /\ h.pc \in {"idle", "responded"}
    /\ reqs < MaxRequests
    /\ reqs' = reqs + 1
    /\ h' = [IdleHandler EXCEPT !.pc = "auth", !.token = token, !.body = body]
    /\ reqStart' = Tables(db)
    /\ UNCHANGED <<secret, storeVars, parseVars>>

\* Variant: only a missing token is rejected.
unauthorized_missing_only(sec, token) == Truthy(sec) /\ ~Truthy(token)

\* Lines 186-187: the request is rejected.
unauthorized(sec, token) == Truthy(sec) /\ (~Truthy(token) \/ token # sec)

\* Lines 185-188.
Authenticate ==
    /\ h.pc = "auth"
    /\ h' = IF unauthorized(secret, h.token)
            THEN Respond(h, 401, "unauthorized", 0)
            ELSE [h EXCEPT !.pc = "json"]
    /\ UNCHANGED <<secret, reqs, reqStart, storeVars, parseVars>>

\* Lines 190-193.
GetJson ==
    /\ h.pc = "json"
    /\ h' = IF h.body = Malformed
            THEN Respond(h, 400, "invalid json", 0)
            ELSE [h EXCEPT !.pc = "classify", !.parsed = TRUE]
    /\ UNCHANGED <<secret, reqs, reqStart, storeVars, parseVars>>

\* Lines 195-200.  An exception that webhook() does not catch is Flask's 500.
Classify ==
    /\ h.pc = "classify"
    /\ h' = IF classify(h.body).exc
            THEN Respond(h, 500, "exception", 0)
            ELSE [h EXCEPT !.pc = "normalize", !.is_delete = classify(h.body).is_delete]
    /\ UNCHANGED <<secret, reqs, reqStart, storeVars, parseVars>>

normalize(is_delete, p) ==
    IF is_delete THEN parse_harbor_delete(p) ELSE parse_harbor_payload(p)

\* Lines 203-206 and 215-218.
Normalize ==
    /\ h.pc = "normalize"
    /\ LET out == normalize(h.is_delete, h.body)
       IN  h' = IF out.exc THEN Respond([h EXCEPT !.normalized = TRUE], 500, "exception", 0)
                ELSE IF Len(out.pairs) = 0
                     THEN Respond([h EXCEPT !.normalized = TRUE], 200, "ignored", 0)
                ELSE [h EXCEPT !.pc = "apply", !.normalized = TRUE, !.pairs = out.pairs, !.i = 1]
    /\ UNCHANGED <<secret, reqs, reqStart, storeVars, parseVars>>

\* Lines 207-209 and 220-222: the call for pair i.
Apply ==
    /\ h.pc = "apply"
    /\ Call(1, IF h.is_delete THEN "del" ELSE "pull", h.pairs[h.i][1], h.pairs[h.i][2])
    /\ h' = [h EXCEPT !.pc = "wait", !.calls = @ + 1]
    /\ UNCHANGED <<secret, reqs, reqStart, db, notNull, allowed0, applied, parseVars>>

\* A statement of the running call.
Execute ==
    /\ h.pc = "wait"
    /\ \E pc \in StatementPcs \cup {"connect", "commit"} : Statement(1, pc)
    /\ UNCHANGED <<h, secret, reqs, reqStart, clock, notNull, allowed0, parseVars>>

\* The store fails the running call.
StoreError ==
    /\ h.pc = "wait"
    /\ Failure(1)
    /\ UNCHANGED <<h, secret, reqs, reqStart, clock, notNull, allowed0, parseVars>>

\* The call returned: the next pair, or lines 213 / 227.
Return ==
    /\ h.pc = "wait"
    /\ tx[1].pc = "done"
    /\ h' = IF h.i = Len(h.pairs)
            THEN Respond(h, 200, "ok", Len(h.pairs))
            ELSE [h EXCEPT !.pc = "apply", !.i = @ + 1]
    /\ UNCHANGED <<secret, reqs, reqStart, storeVars, parseVars>>

\* Variant: the failure of a pair is logged and the loop goes on.
Catch_and_continue ==
    /\ h.pc = "wait"
    /\ tx[1].pc = "failed"
    /\ h' = IF h.i = Len(h.pairs)
            THEN Respond(h, 200, "ok", Len(h.pairs))
            ELSE [h EXCEPT !.pc = "apply", !.i = @ + 1]
    /\ UNCHANGED <<secret, reqs, reqStart, storeVars, parseVars>>

\* Lines 210-212 and 223-225.
Catch ==
    /\ h.pc = "wait"
    /\ tx[1].pc = "failed"
    /\ h' = Respond(h, 500, "db error", 0)
    /\ UNCHANGED <<secret, reqs, reqStart, storeVars, parseVars>>

----------------------------------------------------------------------------
(* Spec: requests handled one after the other *)

Secrets == {JNull, JStr("s3cret")}                    \* WEBHOOK_SECRET unset / set
Tokens == {JNull, JStr("s3cret"), JStr("wrong")}      \* X-Webhook-Token

AppRepo == Dict([name |-> App])
LibRepo == Dict([name |-> Lib])

Bodies ==
    { Malformed,
      EmptyDict,
      JList(<<>>),
      Dict([repository |-> JStr("app")]),
      Dict([type |-> JStr("PUSH_ARTIFACT"),
            resource |-> Dict([repository |-> App, tags |-> JList(<<Dict([name |-> V1]), V2>>)])]),
      Dict([type |-> JStr("PUSH_ARTIFACT"),
            resource |-> Dict([repository |-> App, tags |-> JList(<<V1, Dict([name |-> V1])>>)])]),
      Dict([repository |-> AppRepo, push_data |-> Dict([tag |-> V1])]),
      Dict([repository |-> LibRepo, push_data |-> Dict([tag |-> V1])]),
      Dict([type |-> JStr("PUSH_ARTIFACT"), artifact |-> Dict([tags |-> JList(<<V2>>)])]),
      Dict([resource |-> Dict([repository |-> App, tag |-> V1]),
            artifact |-> Dict([repository |-> Lib, tags |-> JList(<<V2>>)])]),
      Dict([type |-> JStr("DELETE_ARTIFACT"), repository |-> AppRepo, push_data |-> Dict([tag |-> V1])]),
      Dict([operation |-> JStr("delete"), repository |-> AppRepo]),
      Dict([type |-> JStr("Deleted"),
            artifact |-> Dict([repository |-> App, tags |-> JList(<<Dict([name |-> V1]), V2>>)])]),
      Dict([type |-> JStr("DELETE_ARTIFACT"), resource |-> Dict([repository |-> App, tag |-> V1])]),
      Dict([operation |-> JStr("CREATE"), type |-> JStr("artifact")]),
      Dict([event_type |-> JStr("DELETE_ARTIFACT")]),
      Dict([type |-> JStr(""), event_type_lite |-> JStr("Deleted")]),
      Dict([type |-> JStr("PUSH_ARTIFACT"), event_type |-> JStr("DELETE_ARTIFACT")]),
      Dict([type |-> JStr("PUSH_ARTIFACT"), operation |-> JStr("DELETE")]) }

AllowedLists ==
    { <<AllowedRow(App, V1), AllowedRow(App, V2), AllowedRow(Lib, V1)>>,
      <<AllowedRow(App, V1), AllowedRow(App, V1)>> }

ParseIdle == payload = EmptyDict /\ pushOut = NotRun /\ delOut = NotRun

HandlerIdle == h = IdleHandler /\ reqs = 0 /\ reqStart = NoTables

StoreInit ==
    /\ \E a \in AllowedLists : db = EmptyStore(a) /\ allowed0 = a
    /\ clock = 1
    /\ tx = [c \in Conns |-> IdleTx]
    /\ notNull \in BOOLEAN
    /\ applied = <<>>

Init ==
    /\ ParseIdle
    /\ HandlerIdle
    /\ secret \in Secrets
    /\ StoreInit

Next ==
    \/ \E token \in Tokens, body \in Bodies : Receive(token, body)
    \/ Authenticate
    \/ GetJson
    \/ Classify
    \/ Normalize
    \/ Apply
    \/ Execute
    \/ StoreError
    \/ Return
    \/ Catch

Spec == Init /\ [][Next]_vars

----------------------------------------------------------------------------
(* The payloads the normalizers are run on *)

\* A top-level or nested resource object.
ResourceOpts ==
    { JAbsent,
      Dict([repository |-> App, tag |-> V1]),
      Dict([repository |-> App, tags |-> JList(<<Dict([name |-> V1]), V2>>)]),
      Dict([repository |-> App, tag |-> V1, tags |-> JList(<<V2>>)]),
      Dict([repository |-> App, tags |-> JList(<<Dict([name |-> V1]), EmptyDict>>)]),
      Dict([repo |-> App, tag |-> V2]),
      Dict([tag |-> V1]),
      Dict([repository |-> App]),
      Dict([repository |-> App, tags |-> JList(<<>>)]),
      JStr("res") }

EventDataOpts ==
    { JAbsent,
      EmptyDict,
      Dict([resource |-> Dict([repository |-> Lib, tag |-> V2])]),
      Dict([repository |-> Dict([name |-> Lib])]),
      JStr("ed") }

ArtifactOpts ==
    { JAbsent,
      EmptyDict,
      Dict([repository |-> Lib, tags |-> JList(<<Dict([name |-> V2]), V3>>)]),
      Dict([tags |-> JList(<<V2>>)]),
      Dict([repository |-> Lib]),
      Dict([repository |-> Lib, tags |-> JNull]),
      Dict([tags |-> JList(<<EmptyDict>>)]),
      Dict([resource |-> Dict([repository |-> Lib, tag |-> V3])]),
      JStr("art") }

RepositoryOpts ==
    { JAbsent, Dict([name |-> App]), EmptyDict, JStr("app"), JNull }

PushDataOpts ==
    { JAbsent, Dict([tag |-> V3]), EmptyDict, JStr("pd") }

PushOpts == { JAbsent, Dict([tag |-> V2]) }

MkPayload(ed, art, res, rp, pd, ps) ==
    Dict([event_data |-> ed, artifact |-> art, resource |-> res,
          repository |-> rp, push_data |-> pd, push |-> ps])

ParsePayloads ==
    { MkPayload(ed, art, res, rp, pd, ps) :
        ed \in EventDataOpts, art \in ArtifactOpts, res \in ResourceOpts,
        rp \in RepositoryOpts, pd \in PushDataOpts, ps \in PushOpts }

ParseInit ==
    /\ payload \in ParsePayloads
    /\ pushOut = NotRun
    /\ delOut = NotRun
    /\ HandlerIdle
    /\ secret = JNull
    /\ db = EmptyStore(<<>>)
    /\ allowed0 = <<>>
    /\ clock = 1
    /\ tx = [c \in Conns |-> IdleTx]
    /\ notNull = TRUE
    /\ applied = <<>>

RunParsePush ==
    /\ ~pushOut.ran
    /\ pushOut' = Ran(parse_harbor_payload(payload))
    /\ UNCHANGED <<payload, delOut, storeVars, handlerVars>>

RunParseDelete ==
    /\ ~delOut.ran
    /\ delOut' = Ran(parse_harbor_delete(payload))
    /\ UNCHANGED <<payload, pushOut, storeVars, handlerVars>>

ParseNext == RunParsePush \/ RunParseDelete

SpecParse == ParseInit /\ [][ParseNext]_vars

----------------------------------------------------------------------------
(* SpecRace: two callers, each on its own connection, each making one      *)
(* mark_image_* call; their statements interleave.  A transaction that     *)
(* waits for ever (a lock cycle) is ended by Failure, as by the store's    *)
(* deadlock detector.                                                      *)

RaceStores ==
    UNION { {EmptyStore(a), mark_image_pulled(EmptyStore(a), App, V1, 1)} : a \in AllowedLists }

RaceCalls ==
    { [op |-> "pull", repo |-> App, tag |-> V1],
      [op |-> "pull", repo |-> App, tag |-> V2],
      [op |-> "del",  repo |-> App, tag |-> V1],
      [op |-> "del",  repo |-> App, tag |-> JNull] }

RaceInit ==
    /\ ParseIdle
    /\ HandlerIdle
    /\ secret = JNull
    /\ notNull = TRUE
    /\ db \in RaceStores
    /\ allowed0 = [i \in 1..Len(db.allowed) |-> AllowedRow(db.allowed[i].cur.name, db.allowed[i].cur.tag)]
    /\ clock = 2
    /\ tx = [c \in Conns |-> IdleTx]
    /\ applied = <<>>

RaceCall(c) ==
    /\ tx[c].pc = "idle"
    /\ \E call \in RaceCalls : Call(c, call.op, call.repo, call.tag)
    /\ UNCHANGED <<db, notNull, allowed0, applied, handlerVars, parseVars>>

RaceStatement(c, pc) ==
    /\ Statement(c, pc)
    /\ UNCHANGED <<clock, notNull, allowed0, handlerVars, parseVars>>

Connect(c) == tx[c].pc = "connect" /\ RaceStatement(c, "connect")
SelectRepoStmt(c) == tx[c].pc = "sel_repo" /\ RaceStatement(c, "sel_repo")
InsertRepoStmt(c) == tx[c].pc = "ins_repo" /\ RaceStatement(c, "ins_repo")
ReselectRepoStmt(c) == tx[c].pc = "resel_repo" /\ RaceStatement(c, "resel_repo")
SelectTagStmt(c) == tx[c].pc = "sel_tag" /\ RaceStatement(c, "sel_tag")
InsertTagStmt(c) == tx[c].pc = "ins_tag" /\ RaceStatement(c, "ins_tag")
ReselectTagStmt(c) == tx[c].pc = "resel_tag" /\ RaceStatement(c, "resel_tag")
UpdatePullsStmt(c) == tx[c].pc = "upd_pulls" /\ RaceStatement(c, "upd_pulls")
InsertPullsStmt(c) == tx[c].pc = "ins_pulls" /\ RaceStatement(c, "ins_pulls")
UpdateAllowedStmt(c) == tx[c].pc = "upd_allowed" /\ RaceStatement(c, "upd_allowed")
DeleteAllowedStmt(c) == tx[c].pc = "d_upd_allowed" /\ RaceStatement(c, "d_upd_allowed")
DeleteSelectRepoStmt(c) == tx[c].pc = "d_sel_repo" /\ RaceStatement(c, "d_sel_repo")
DeleteSelectTagStmt(c) == tx[c].pc = "d_sel_tag" /\ RaceStatement(c, "d_sel_tag")
DeletePullsTagStmt(c) == tx[c].pc = "d_upd_tag" /\ RaceStatement(c, "d_upd_tag")
DeletePullsRepoStmt(c) == tx[c].pc = "d_upd_repo" /\ RaceStatement(c, "d_upd_repo")
CommitStmt(c) == tx[c].pc = "commit" /\ RaceStatement(c, "commit")

RaceFailure(c) ==
    /\ Failure(c)
    /\ UNCHANGED <<clock, notNull, allowed0, handlerVars, parseVars>>

RaceNext ==
    \E c \in Conns :
        \/ RaceCall(c)
        \/ Connect(c)
        \/ SelectRepoStmt(c)
        \/ InsertRepoStmt(c)
        \/ ReselectRepoStmt(c)
        \/ SelectTagStmt(c)
        \/ InsertTagStmt(c)
        \/ ReselectTagStmt(c)
        \/ UpdatePullsStmt(c)
        \/ InsertPullsStmt(c)
        \/ UpdateAllowedStmt(c)
        \/ DeleteAllowedStmt(c)
        \/ DeleteSelectRepoStmt(c)
        \/ DeleteSelectTagStmt(c)
        \/ DeletePullsTagStmt(c)
        \/ DeletePullsRepoStmt(c)
        \/ CommitStmt(c)
        \/ RaceFailure(c)

SpecRace == RaceInit /\ [][RaceNext]_vars

----------------------------------------------------------------------------
(* SpecStall: the handler of Spec with a store that can stop answering.    *)
(* get_conn() passes no connect_timeout and no statement sets a            *)
(* statement_timeout or lock_timeout, so a round trip that gets no answer  *)
(* blocks the call: no step of webhook() follows it.  Every step that is   *)
(* possible is eventually taken.                                           *)

\* The round trip in progress never returns.
Stall ==
    /\ h.pc = "wait"
    /\ Running(tx[1])
    /\ tx' = [tx EXCEPT ![1] = [@ EXCEPT !.pc = "stalled"]]
    /\ UNCHANGED <<h, secret, reqs, reqStart, db, clock, notNull, allowed0, applied, parseVars>>

StallNext == Next \/ Stall

SpecStall == Init /\ [][StallNext]_vars /\ WF_vars(StallNext)

----------------------------------------------------------------------------
(* Properties *)

\* Rows of the committed tables tb.
ReposNamed(tb, name) == {r \in tb.repos : SqlEq(r.full_name, name)}

TagsNamed(tb, name, tag) ==
    {g \in tb.tags : SqlEq(g.tag, tag) /\ \E r \in ReposNamed(tb, name) : g.repository_id = r.id}

TagsUnder(tb, name) ==
    {g \in tb.tags : \E r \in ReposNamed(tb, name) : g.repository_id = r.id}

PullRows(tb, tagRows) ==
    {i \in 1..Len(tb.pulls) : \E g \in tagRows : tb.pulls[i].tag_id = g.id}

AllowedNamed(tb, name, tag) ==
    {i \in 1..Len(tb.allowed) : SqlEq(tb.allowed[i].name, name) /\ SqlEq(tb.allowed[i].tag, tag)}

AllowedUnder(tb, name) ==
    {i \in 1..Len(tb.allowed) : SqlEq(tb.allowed[i].name, name)}

NoTimes(tb) ==
    [tb EXCEPT !.pulls = [i \in 1..Len(tb.pulls) |->
                            [tag_id |-> tb.pulls[i].tag_id, is_pulled |-> tb.pulls[i].is_pulled]]]

PulledCall(t) == t.pc = "done" /\ t.op = "pull" /\ t.repo.k = "str" /\ t.tag.k = "str"

\* C1: when Mark Pulled of a (repo, tag) has completed, the store holds one
\* Repository row of that name, one Tag row of that pair and one Pull State
\* row of that tag, pulled, with the time of this call; when the transition
\* committed just before it was the same Mark Pulled, the call changed
\* nothing but that time.
C1_MarkPulledIdempotent ==
    LET t   == tx[1]
        now == Tables(db)
        n   == Len(applied)
        g   == TagsNamed(now, t.repo, t.tag)
    IN  PulledCall(t) =>
          /\ Cardinality(ReposNamed(now, t.repo)) = 1
          /\ Cardinality(g) = 1
          /\ Cardinality(PullRows(now, g)) = 1
          /\ \A i \in PullRows(now, g) :
                now.pulls[i].is_pulled /\ now.pulls[i].last_pulled_at = t.now
          /\ (n >= 2 /\ applied[n - 1] = applied[n]) => NoTimes(now) = NoTimes(t.before)

\* A Mark Pulled has been applied twice in a row and the second has completed.
C1_Witness ==
    /\ PulledCall(tx[1])
    /\ Len(applied) >= 2
    /\ applied[Len(applied) - 1] = applied[Len(applied)]
    /\ Tables(db) # tx[1].before

SameNewKey ==
    /\ \A c \in Conns : tx[c].op = "pull" /\ TagsNamed(tx[c].before, tx[c].repo, tx[c].tag) = {}
    /\ tx[1].repo = tx[2].repo
    /\ tx[1].tag = tx[2].tag

\* C2: when two callers on their own connections resolve the same new
\* repository name and (repo, tag) at the same time, neither fails because
\* of the other, both obtain the identifiers of the same rows, and at all
\* times there is at most one committed row per repository name and per
\* (repository, tag).
C2_ResolveOrCreateRaceSafe ==
    LET now == Tables(db)
    IN  /\ \A r1, r2 \in now.repos : r1.full_name = r2.full_name => r1 = r2
        /\ \A g1, g2 \in now.tags :
              (g1.repository_id = g2.repository_id /\ g1.tag = g2.tag) => g1 = g2
        /\ SameNewKey =>
              /\ \A c \in Conns : tx[c].pc = "failed" => tx[c].injected
              /\ \A c \in Conns : tx[c].pc = "done" =>
                    /\ ReposNamed(now, tx[c].repo) = {[id |-> tx[c].repo_id, full_name |-> tx[c].repo]}
                    /\ TagsNamed(now, tx[c].repo, tx[c].tag) =
                          {[id |-> tx[c].tag_id, repository_id |-> tx[c].repo_id, tag |-> tx[c].tag]}
              /\ (tx[1].pc = "done" /\ tx[2].pc = "done") =>
                    tx[1].repo_id = tx[2].repo_id /\ tx[1].tag_id = tx[2].tag_id

\* Both callers completed, and one of them had its INSERT of the repository
\* turned away by the other's row (an identifier was drawn and not used).
C2_Witness ==
    /\ SameNewKey
    /\ \A c \in Conns : tx[c].pc = "done" /\ ~tx[c].injected
    /\ tx[1].before.repos = {}
    /\ tx[2].before.repos = {}
    /\ db.repo_seq > Cardinality(Tables(db).repos)

\* C3: when Mark Deleted of a repository without a tag has completed, every
\* Pull State row of every tag that was under the repository is not pulled,
\* and every AllowedImage row of that name, whatever its tag, is marked
\* deleted with the time of the call.
C3_RepositoryWideDelete ==
    LET t   == tx[1]
        now == Tables(db)
    IN  (t.pc = "done" /\ t.op = "del" /\ t.repo.k = "str" /\ ~Truthy(t.tag)) =>
          /\ \A i \in PullRows(now, TagsUnder(t.before, t.repo)) : ~now.pulls[i].is_pulled
          /\ \A i \in AllowedUnder(now, t.repo) :
                /\ now.allowed[i].harbor_deleted
                /\ now.allowed[i].harbor_deleted_at = t.now
                /\ now.allowed[i].deleted_at = t.now

\* The repository had two pulled tags and two AllowedImage rows of different tags.
C3_Witness ==
    LET t == tx[1]
    IN  /\ t.pc = "done" /\ t.op = "del" /\ t.repo.k = "str" /\ ~Truthy(t.tag)
        /\ Cardinality(TagsUnder(t.before, t.repo)) >= 2
        /\ \A i \in PullRows(t.before, TagsUnder(t.before, t.repo)) : t.before.pulls[i].is_pulled
        /\ Cardinality(PullRows(t.before, TagsUnder(t.before, t.repo))) >= 2
        /\ \E i, j \in AllowedUnder(t.before, t.repo) : t.before.allowed[i].tag # t.before.allowed[j].tag

Unmatched(t) ==
    /\ t.op = "pull" /\ t.repo.k = "str" /\ t.tag.k = "str"
    /\ AllowedNamed(t.before, t.repo, t.tag) = {}

\* C4: a Mark Pulled whose (repo, tag) matches no AllowedImage row raises
\* nothing, leaves every AllowedImage row as it was and still records the
\* tag as pulled; and the AllowedImage rows are always the rows the store
\* started with, none added or removed.
C4_UnmatchedAllowListNoOp ==
    LET t   == tx[1]
        now == Tables(db)
    IN  /\ Len(now.allowed) = Len(allowed0)
        /\ \A i \in 1..Len(allowed0) :
              now.allowed[i].name = allowed0[i].name /\ now.allowed[i].tag = allowed0[i].tag
        /\ (t.pc = "failed" /\ Unmatched(t)) => t.injected
        /\ (t.pc = "done" /\ Unmatched(t)) =>
              /\ now.allowed = t.before.allowed
              /\ PullRows(now, TagsNamed(now, t.repo, t.tag)) # {}
              /\ \A i \in PullRows(now, TagsNamed(now, t.repo, t.tag)) : now.pulls[i].is_pulled

\* An unmatched Mark Pulled completed while rows of the same name exist.
C4_Witness ==
    /\ tx[1].pc = "done"
    /\ Unmatched(tx[1])
    /\ AllowedUnder(tx[1].before, tx[1].repo) # {}

Rejected == Truthy(secret) /\ (h.token = JNull \/ h.token # secret)

\* C5: with a secret configured, a request whose token is missing or wrong
\* is answered 401 by the first step, before its body is parsed or
\* normalized and before any store call, and the store is as it was when
\* the request arrived.
C5_AuthGate ==
    (Rejected /\ h.pc \notin {"idle", "auth"}) =>
        /\ h.pc = "responded"
        /\ h.code = 401
        /\ ~h.parsed
        /\ ~h.normalized
        /\ h.calls = 0
        /\ Tables(db) = reqStart

\* A wrong token with a push body that would have written to a non-empty store.
C5_Witness ==
    /\ Rejected
    /\ h.token # JNull
    /\ h.pc = "responded"
    /\ h.body = Dict([repository |-> LibRepo, push_data |-> Dict([tag |-> V1])])
    /\ reqStart.repos # {}
\* The persisted state the spec compares: per (repository, tag) whether it
\* is pulled, and per AllowedImage row its markers; timestamps and
\* identifiers left out.
Abs(tb) ==
    [pulled  |-> {<<x[1].full_name, x[2].tag, tb.pulls[x[3]].is_pulled>> :
                    x \in {y \in tb.repos \X tb.tags \X (1..Len(tb.pulls)) :
                             /\ y[2].repository_id = y[1].id
                             /\ tb.pulls[y[3]].tag_id = y[2].id}},
     allowed |-> [i \in 1..Len(tb.allowed) |->
                    [name |-> tb.allowed[i].name, tag |-> tb.allowed[i].tag,
                     linked |-> tb.allowed[i].tag_id # 0,
                     raw_name |-> tb.allowed[i].raw_name, raw_tag |-> tb.allowed[i].raw_tag,
                     deleted |-> tb.allowed[i].deleted_at # 0,
                     harbor_deleted |-> tb.allowed[i].harbor_deleted]]]

Events == {applied[i] : i \in 1..Len(applied)}

\* One fixed order of a set of events.
RECURSIVE InSomeOrder(_)
InSomeOrder(S) ==
    IF S = {} THEN <<>>
    ELSE LET e == CHOOSE x \in S : TRUE IN <<e>> \o InSomeOrder(S \ {e})

\* The events of es applied one after the other to d.
RECURSIVE Replay(_, _, _)
Replay(d, es, now) ==
    IF es = <<>> THEN d
    ELSE CHOOSE x \in {Replay(r, Tail(es), now + 1) :
            r \in {IF es[1].op = "pull"
                   THEN mark_image_pulled(d, es[1].repo, es[1].tag, now)
                   ELSE mark_image_deleted(d, es[1].repo, es[1].tag, now)}} : TRUE

\* C6: the persisted state (timestamps aside) after any deliveries of a set
\* of push and delete events, in any order and with any duplicates, is the
\* state one fixed order of the set without duplicates leads to.
C6_ConvergesUnderAnyDelivery ==
    (/\ ~Running(tx[1])
     /\ \A e \in Events : e.repo.k = "str" /\ (e.tag.k = "str" \/ (e.op = "del" /\ e.tag = JNull)))
    => Abs(Tables(db)) = Abs(Tables(Replay(EmptyStore(allowed0), InSomeOrder(Events), 1)))

\* Valid JSON bodies of no recognized shape.
UnrecognizedBodies ==
    { EmptyDict,
      JList(<<>>),
      Dict([repository |-> JStr("app")]),
      Dict([operation |-> JStr("CREATE"), type |-> JStr("artifact")]) }

\* C9: an authenticated request whose body is valid JSON of no recognized
\* shape is answered 200 "ignored" and leaves the store as it was.
C9_UnrecognizedIgnored ==
    (h.pc = "responded" /\ ~unauthorized(secret, h.token) /\ h.body \in UnrecognizedBodies) =>
        /\ h.code = 200
        /\ h.status = "ignored"
        /\ Tables(db) = reqStart

\* The pair's transition is in the committed tables tb.
Effected(tb, is_delete, pair) ==
    IF pair[1].k # "str" THEN TRUE
    ELSE IF is_delete
    THEN \A i \in (IF Truthy(pair[2]) THEN AllowedNamed(tb, pair[1], pair[2])
                   ELSE AllowedUnder(tb, pair[1])) : tb.allowed[i].harbor_deleted
    ELSE /\ PullRows(tb, TagsNamed(tb, pair[1], pair[2])) # {}
         /\ \A i \in PullRows(tb, TagsNamed(tb, pair[1], pair[2])) : tb.pulls[i].is_pulled

\* C10: when a call of mark_image_pulled or mark_image_deleted has failed,
\* the committed tables are those of the moment it was called and no row
\* or lock of its transaction is left, while the transitions of the pairs
\* of the same request applied before it are committed.
C10_AllOrNothingPerPair ==
    tx[1].pc = "failed" =>
        /\ Tables(db) = tx[1].before
        /\ \A r \in db.repos \cup db.tags : r.xid # 1
        /\ \A i \in 1..Len(db.pulls) : db.pulls[i].xid # 1 /\ db.pulls[i].lock # 1
        /\ \A i \in 1..Len(db.allowed) : db.allowed[i].xid # 1 /\ db.allowed[i].lock # 1
        /\ h.pc \in {"wait", "responded"} =>
              \A j \in 1..(h.i - 1) : Effected(Tables(db), h.is_delete, h.pairs[j])

\* The second pair of a request failed after its transaction had inserted a tag.
C10_Witness ==
    /\ tx[1].pc = "failed"
    /\ tx[1].injected
    /\ tx[1].tag_id # 0
    /\ TagsNamed(tx[1].before, tx[1].repo, tx[1].tag) = {}
    /\ h.pc = "wait"
    /\ h.i = 2
\* The shapes of spec section 4.1, read off the top level of payload p.
ObjAt(p, key) == Has(p, key) /\ p.fields[key].k = "obj"

ListAt(p, key) == Has(p, key) /\ p.fields[key].k = "list" /\ Len(p.fields[key].items) > 0

ResourceShape(p) ==
    /\ ObjAt(p, "resource")
    /\ Truthy(Get(p.fields["resource"], "repository"))
    /\ Truthy(Get(p.fields["resource"], "tag")) \/ ListAt(p.fields["resource"], "tags")

ResourcePairs(p) ==
    LET res == p.fields["resource"]
    IN  IF Truthy(Get(res, "tag")) THEN << <<Get(res, "repository"), Get(res, "tag")>> >>
        ELSE PairsOf(Get(res, "repository"), TagNames(res.fields["tags"].items))

FlatShape(p) ==
    /\ ObjAt(p, "repository")
    /\ Truthy(Get(p.fields["repository"], "name"))
    /\ ObjAt(p, "push_data")
    /\ Truthy(Get(p.fields["push_data"], "tag"))

FlatPairs(p) == << <<Get(p.fields["repository"], "name"), Get(p.fields["push_data"], "tag")>> >>

ArtifactShape(p) ==
    /\ ObjAt(p, "artifact")
    /\ Truthy(Get(p.fields["artifact"], "repository"))
    /\ ListAt(p.fields["artifact"], "tags")

ArtifactPairs(p) ==
    PairsOf(Get(p.fields["artifact"], "repository"), TagNames(p.fields["artifact"].fields["tags"].items))

\* A repository is named and nothing of the payload carries a tag.
RepositoryOnly(p) ==
    /\ ObjAt(p, "repository")
    /\ Truthy(Get(p.fields["repository"], "name"))
    /\ ~Has(p, "push_data") /\ ~Has(p, "push") /\ ~Has(p, "resource")
    /\ ~Has(p, "artifact") /\ ~Has(p, "event_data")

\* C7: for every payload with a top-level resource that has a repository
\* and a tag or a tags list, parse_harbor_payload returns the resource's
\* pairs in list order and nothing else, whatever flat pair, artifact or
\* other field the payload also carries.
C7_PushNormalizerPriority ==
    (pushOut.ran /\ ResourceShape(payload)) =>
        ~pushOut.exc /\ pushOut.pairs = ResourcePairs(payload)

\* C8: parse_harbor_delete covers the shapes of the push normalizer in the
\* same order: the resource's pairs for a resource shape, else the flat
\* pair, else one pair per artifact tag; and (repo, absent) for a payload
\* that names a repository and carries no tag.
C8_DeleteNormalizerShapes ==
    delOut.ran =>
        /\ ResourceShape(payload) =>
              ~delOut.exc /\ delOut.pairs = ResourcePairs(payload)
        /\ (~ResourceShape(payload) /\ FlatShape(payload)) =>
              ~delOut.exc /\ delOut.pairs = FlatPairs(payload)
        /\ (~ResourceShape(payload) /\ ~FlatShape(payload) /\ ArtifactShape(payload)) =>
              ~delOut.exc /\ delOut.pairs = ArtifactPairs(payload)
        /\ RepositoryOnly(payload) =>
              ~delOut.exc /\ delOut.pairs = << <<Get(payload.fields["repository"], "name"), JNull>> >>
\* The transition of pair j of the request being handled.
EventOf(j) ==
    [op |-> IF h.is_delete THEN "del" ELSE "pull", repo |-> h.pairs[j][1], tag |-> h.pairs[j][2]]

\* The last n committed transitions are those of pairs 1..n, in list order.
CommittedInOrder(n) ==
    /\ Len(applied) >= n
    /\ \A j \in 1..n : applied[Len(applied) - n + j] = EventOf(j)

\* C11: a request with pairs p1..pn is answered 500 "db error" as soon as
\* the call for a pair pk fails, with p1..p(k-1) committed and no call made
\* for p(k+1)..pn; it is answered 200 "ok" with count n only when all n
\* transitions committed, in list order.
C11_ShortCircuitOnFirstFailure ==
    /\ (h.pc = "wait" /\ tx[1].pc = "failed") => h.calls = h.i
    /\ (h.pc = "responded" /\ h.status = "db error") =>
          /\ h.code = 500
          /\ tx[1].pc = "failed"
          /\ h.i \in 1..Len(h.pairs)
          /\ h.calls = h.i
          /\ CommittedInOrder(h.i - 1)
          /\ Tables(db) = tx[1].before
    /\ (h.pc = "responded" /\ h.status = "ok") =>
          /\ h.code = 200
          /\ h.count = Len(h.pairs)
          /\ h.calls = Len(h.pairs)
          /\ tx[1].pc = "done"
          /\ CommittedInOrder(Len(h.pairs))
    /\ (h.pc = "responded" /\ h.calls > 0) => h.status \in {"ok", "db error"}

\* The first of two pairs failed: 500, and the second pair was never called.
C11_Witness ==
    /\ h.pc = "responded"
    /\ h.status = "db error"
    /\ Len(h.pairs) = 2
    /\ h.pairs[1] # h.pairs[2]
    /\ h.i = 1
    /\ h.calls = 1
\* The persisted state with its row counts; identifiers, timestamps and
\* the order of rows left out.
AbsCounted(tb) ==
    [abs |-> Abs(tb), repos |-> Cardinality(tb.repos), tags |-> Cardinality(tb.tags),
     pulls |-> Len(tb.pulls)]

\* The store the two callers started from.
RaceStart ==
    LET first == IF tx[2].pc = "idle" \/ (tx[1].pc # "idle" /\ tx[1].now < tx[2].now)
                 THEN 1 ELSE 2
    IN  CHOOSE d \in RaceStores : Tables(d) = tx[first].before

\* The call of t made alone on d.
Alone(d, t) ==
    IF t.op = "pull" THEN mark_image_pulled(d, t.repo, t.tag, t.now)
    ELSE mark_image_deleted(d, t.repo, t.tag, t.now)

\* C12: when the calls of two connections have both committed, whatever the
\* interleaving of their statements, the store is as if one call had run
\* after the other in one of the two orders; and while only one has
\* committed, the store is as if that call had run alone.
C12_ConcurrentTransitionsSerializable ==
    /\ (tx[1].pc = "done" /\ tx[2].pc = "done") =>
          AbsCounted(Tables(db)) \in
              { AbsCounted(Tables(Alone(Alone(RaceStart, tx[1]), tx[2]))),
                AbsCounted(Tables(Alone(Alone(RaceStart, tx[2]), tx[1]))) }
    /\ \A c \in Conns :
          (tx[c].pc = "done" /\ tx[3 - c].pc # "done") =>
              AbsCounted(Tables(db)) = AbsCounted(Tables(Alone(RaceStart, tx[c])))

\* A Mark Pulled and a Mark Deleted of the same existing (repo, tag) both
\* committed, the one called second having committed its work first.
C12_Witness ==
    /\ tx[1].pc = "done" /\ tx[2].pc = "done"
    /\ tx[1].op # tx[2].op
    /\ tx[1].repo = tx[2].repo /\ tx[1].tag = tx[2].tag
    /\ TagsNamed(tx[1].before, tx[1].repo, tx[1].tag) # {}
    /\ TagsNamed(tx[2].before, tx[2].repo, tx[2].tag) # {}
    /\ tx[1].before = tx[2].before
    /\ applied[1].op = (IF tx[1].now < tx[2].now THEN tx[2].op ELSE tx[1].op)
\* C13: a request whose store round trip never returns is still answered,
\* with a status that is not 2xx.
C13_StalledStoreAnswered ==
    (h.pc = "wait" /\ tx[1].pc = "stalled") ~> (h.pc = "responded" /\ h.code \notin 200..299)
\* The event-type field of body p: type, else event_type, else
\* event_type_lite, else none.
EventTypeField(p) ==
    IF Truthy(Get(p, "type")) THEN Get(p, "type")
    ELSE IF Truthy(Get(p, "event_type")) THEN Get(p, "event_type")
    ELSE IF Truthy(Get(p, "event_type_lite")) THEN Get(p, "event_type_lite")
    ELSE JNull

\* The event types of the requests that contain "delete" in some case.
DeleteTypes == {JStr("DELETE_ARTIFACT"), JStr("Deleted")}

\* The request has been classified.
Classified ==
    h.pc \in {"normalize", "apply", "wait"} \/ (h.pc = "responded" /\ h.normalized)

\* The steps after the classification are those of its class.
OnlyOwnClassRuns ==
    /\ (h.pc \in {"apply", "wait"} \/ (h.pc = "responded" /\ h.normalized /\ Len(h.pairs) > 0)) =>
          h.pairs = normalize(h.is_delete, h.body).pairs
    /\ h.calls > 0 => tx[1].op = (IF h.is_delete THEN "del" ELSE "pull")

RepoNameOf(tb, g) == (CHOOSE r \in tb.repos : r.id = g.repository_id).full_name

\* Event e targets the tag (name, tag).
Targets(e, name, tag) ==
    e.repo = name /\ (e.tag = tag \/ (e.op = "del" /\ ~Truthy(e.tag)))

\* The committed transitions that target tag row g, by position.
TargetingOf(tb, g) ==
    {i \in 1..Len(applied) : Targets(applied[i], RepoNameOf(tb, g), g.tag)}

Last(S) == CHOOSE i \in S : \A j \in S : j <= i

\* C15: in every committed state each tag row has a PullState, pulled
\* exactly when the last committed transition that targets the tag is a
\* Mark Pulled; and a completed transition left the PullState of every tag
\* it does not target as it was.
C15_PullStateReflectsLastEvent ==
    LET now == Tables(db)
        t   == tx[1]
        e   == [op |-> t.op, repo |-> t.repo, tag |-> t.tag]
    IN  /\ \A g \in now.tags :
              /\ TargetingOf(now, g) # {}
              /\ PullRows(now, {g}) # {}
              /\ \A i \in PullRows(now, {g}) :
                    now.pulls[i].is_pulled <=> applied[Last(TargetingOf(now, g))].op = "pull"
        /\ t.pc = "done" =>
              \A g \in t.before.tags :
                  ~Targets(e, RepoNameOf(t.before, g), g.tag) =>
                      \A i \in PullRows(t.before, {g}) : now.pulls[i] = t.before.pulls[i]

\* Two tags of one repository were pulled and one of them deleted since:
\* the deleted one is not pulled, the other one still is.
C15_Witness ==
    LET now == Tables(db)
    IN  /\ tx[1].pc = "done" /\ tx[1].op = "del" /\ Truthy(tx[1].tag)
        /\ \E g1, g2 \in now.tags :
              /\ g1.repository_id = g2.repository_id
              /\ g1.tag # g2.tag
              /\ \A i \in PullRows(now, {g1}) : ~now.pulls[i].is_pulled
              /\ \A i \in PullRows(now, {g2}) : now.pulls[i].is_pulled
              /\ \A i \in PullRows(tx[1].before, {g1}) : tx[1].before.pulls[i].is_pulled

\* C16: under every interleaving of two concurrent calls no tag_id has two
\* image_pulls rows, committed or not, and every committed Tag row has
\* exactly one committed image_pulls row.
C16_OnePullStatePerTag ==
    /\ \A i, j \in 1..Len(db.pulls) :
          db.pulls[i].cur.tag_id = db.pulls[j].cur.tag_id => i = j
    /\ \A g \in Tables(db).tags : Cardinality(PullRows(Tables(db), {g})) = 1

\* Two concurrent Mark Pulled of the same new tag both committed: one
\* inserted the image_pulls row, the other updated it.
C16_Witness ==
    /\ tx[1].pc = "done" /\ tx[2].pc = "done"
    /\ tx[1].op = "pull" /\ tx[2].op = "pull"
    /\ tx[1].tag = tx[2].tag
    /\ tx[1].before = tx[2].before
    /\ tx[1].before.tags = {}
    /\ {tx[1].rowcount, tx[2].rowcount} = {0, 1}
    /\ Len(Tables(db).pulls) = 1

\* Every committed row of tb is still in tc, with its identity and key.
RowsKept(tb, tc) ==
    /\ tb.repos \subseteq tc.repos
    /\ tb.tags \subseteq tc.tags
    /\ Len(tb.pulls) <= Len(tc.pulls)
    /\ \A i \in 1..Len(tb.pulls) : tc.pulls[i].tag_id = tb.pulls[i].tag_id
    /\ Len(tb.allowed) = Len(tc.allowed)
    /\ \A i \in 1..Len(tb.allowed) :
          /\ tc.allowed[i].name = tb.allowed[i].name
          /\ tc.allowed[i].tag = tb.allowed[i].tag

\* C17: no step removes a committed Repository, Tag, PullState or
\* AllowedImage row or changes its identity or key; no step of Mark Deleted
\* adds a Repository, Tag or PullState row, committed or not; and Mark
\* Deleted raises only when the store itself fails, never because the
\* repository or the tag is unknown.
C17_RowsOnlyAddedOrMutated ==
    [][ /\ RowsKept(Tables(db), Tables(db'))
        /\ (tx[1].op = "del" /\ Running(tx[1])) =>
              /\ db'.repos = db.repos
              /\ db'.tags = db.tags
              /\ Len(db'.pulls) = Len(db.pulls)
              /\ tx'[1].pc = "failed" => tx'[1].injected ]_vars

\* A Mark Deleted of a tag unknown under a known repository completed,
\* leaving the tables as they were.
C17_Witness ==
    LET t == tx[1]
    IN  /\ t.pc = "done" /\ t.op = "del" /\ Truthy(t.tag)
        /\ ReposNamed(t.before, t.repo) # {}
        /\ TagsNamed(t.before, t.repo, t.tag) = {}
        /\ Tables(db).repos = t.before.repos
        /\ Tables(db).tags = t.before.tags
        /\ Len(Tables(db).pulls) = Len(t.before.pulls)

\* A present repository or tag: a non-empty string.
Present(x) == x.k = "str" /\ x.s # ""

\* C18: every pair returned by parse_harbor_payload has a present
\* repository and a present tag, and every pair returned by
\* parse_harbor_delete has a present repository.
C18_NormalizerOutputWellFormed ==
    /\ (pushOut.ran /\ ~pushOut.exc) =>
          \A i \in 1..Len(pushOut.pairs) :
              Present(pushOut.pairs[i][1]) /\ Present(pushOut.pairs[i][2])
    /\ (delOut.ran /\ ~delOut.exc) =>
          \A i \in 1..Len(delOut.pairs) : Present(delOut.pairs[i][1])

\* Connections a and b run a Mark Pulled and a Mark Deleted of the same
\* (repo, tag), which had a PullState row and an AllowedImage row when
\* both were called.
PullAgainstDelete(a, b) ==
    /\ Running(tx[a]) /\ Running(tx[b])
    /\ tx[a].op = "pull" /\ tx[b].op = "del"
    /\ tx[a].repo = tx[b].repo /\ tx[a].tag = tx[b].tag
    /\ tx[a].before = tx[b].before
    /\ PullRows(tx[a].before, TagsNamed(tx[a].before, tx[a].repo, tx[a].tag)) # {}
    /\ AllowedNamed(tx[a].before, tx[a].repo, tx[a].tag) # {}

\* C19: a Mark Pulled and a Mark Deleted of the same (repo, tag) with a
\* PullState row and an AllowedImage row never reach a state where each
\* waits for a row lock the other holds.
C19_NoLockCycle ==
    \A a, b \in Conns :
        PullAgainstDelete(a, b) => ~(Waits(db, tx[a], a) /\ Waits(db, tx[b], b))

\* The deletion markers of an AllowedImage row.
Markers(row) ==
    [deleted_at |-> row.deleted_at, harbor_deleted |-> row.harbor_deleted,
     harbor_deleted_at |-> row.harbor_deleted_at]

\* The (repo, tag) of call t is pulled and its AllowedImage rows are marked
\* deleted.
PulledAndDeleted(tb, t) ==
    /\ AllowedNamed(tb, t.repo, t.tag) # {}
    /\ \A i \in AllowedNamed(tb, t.repo, t.tag) :
          tb.allowed[i].harbor_deleted /\ tb.allowed[i].deleted_at > 0
    /\ PullRows(tb, TagsNamed(tb, t.repo, t.tag)) # {}
    /\ \A i \in PullRows(tb, TagsNamed(tb, t.repo, t.tag)) : tb.pulls[i].is_pulled

\* A step keeps every committed deletion marker, and a statement of Mark
\* Pulled changes no deletion marker at all.
MarkersKept ==
    /\ \A i \in 1..Len(db.allowed) :
          db.allowed[i].cur.harbor_deleted =>
              /\ db'.allowed[i].cur.harbor_deleted
              /\ db'.allowed[i].cur.deleted_at >= db.allowed[i].cur.deleted_at
              /\ db'.allowed[i].cur.harbor_deleted_at >= db.allowed[i].cur.harbor_deleted_at
    /\ (tx[1].op = "pull" /\ Running(tx[1])) =>
          \A i \in 1..Len(db.allowed) :
              /\ Markers(db'.allowed[i].cur) = Markers(db.allowed[i].cur)
              /\ Markers(db'.allowed[i].new) = Markers(db.allowed[i].new)

\* A Mark Pulled of a (repo, tag) whose AllowedImage rows were all marked
\* deleted has completed.
PulledOverDeleted ==
    /\ PulledCall(tx[1])
    /\ AllowedNamed(tx[1].before, tx[1].repo, tx[1].tag) # {}
    /\ \A i \in AllowedNamed(tx[1].before, tx[1].repo, tx[1].tag) :
          tx[1].before.allowed[i].harbor_deleted

\* C20: a committed AllowedImage row marked deleted stays marked, with
\* times that are set and never move back; no statement of Mark Pulled
\* changes a deletion marker of any row; and a completed Mark Pulled of a
\* (repo, tag) whose AllowedImage rows were marked deleted leaves them
\* marked as they were, with the tag pulled.
C20_DeletionMarkersSticky ==
    /\ [](\A i \in 1..Len(db.allowed) :
             db.allowed[i].cur.harbor_deleted =>
                 db.allowed[i].cur.deleted_at > 0 /\ db.allowed[i].cur.harbor_deleted_at > 0)
    /\ [](PulledOverDeleted =>
             /\ PulledAndDeleted(Tables(db), tx[1])
             /\ \A i \in 1..Len(db.allowed) :
                   Markers(db.allowed[i].cur) = Markers(tx[1].before.allowed[i]))
    /\ [][MarkersKept]_vars

\* A Mark Pulled of a (repo, tag) completed after a Mark Deleted of it had
\* marked its AllowedImage row: the tag is pulled and the row still marked.
C20_Witness ==
    /\ PulledCall(tx[1])
    /\ \E k \in 1..Len(applied) :
          applied[k] = [op |-> "del", repo |-> tx[1].repo, tag |-> tx[1].tag]
    /\ applied[Len(applied)].op = "pull"
    /\ PulledAndDeleted(Tables(db), tx[1])

====
